---- MODULE Spec2Model ----
(***************************************************************************)
(* Model of the task persistence-and-mutation core of the task manager:    *)
(* StorageService (a JSON wrapper over AsyncStorage) and TaskService (CRUD *)
(* and status transitions, each load-full-collection / compute /           *)
(* write-full-collection).  Every TaskService call is an async function:   *)
(* it suspends at each await of an AsyncStorage operation, so calls        *)
(* interleave at exactly those points.  TaskProvider (the React state      *)
(* container) is modelled on top of it: each of its operations runs up to  *)
(* its await of a TaskService call and, once the call has settled, to its  *)
(* end, where it sets the tasks, loading and error state.                  *)
(*                                                                         *)
(* JavaScript values: a property value is modelled as a sequence of length *)
(* at most one, <<>> for undefined and <<v>> for the value v; an object is *)
(* a function from its own property names to such values.                  *)
(***************************************************************************)
EXTENDS Integers, Sequences, FiniteSets, TLC

\* ---------------------------------------------------------------- bounds
\* Largest reading of the millisecond clock (the clock stalls there).
MaxTime == 1
\* Largest number of records createTask is let to build a collection of.
MaxTasks == 3
\* Number of TaskService calls that can be in flight at the same time.
NumCalls == 2
\* Number of calls issued in a behaviour where calls overlap.
MaxCalls == 3
\* Number of calls issued in a behaviour where each call settles before the next.
MaxSeqCalls == 4
\* Number of calls issued in a behaviour where reads run beside the writes.
MaxReadCalls == 4
\* Number of StorageService calls issued in a behaviour.
MaxStorageCalls == 4
\* Number of calls issued in a behaviour where TaskService runs beside
\* direct writes of the other keys.
MaxKeyCalls == 4
\* Number of TaskProvider operations issued in a behaviour where they overlap.
MaxProviderCalls == 3
\* Number of TaskProvider operations issued in a behaviour where each
\* settles before the next.
MaxProviderSeqCalls == 4

Calls == 1..NumCalls

\* ------------------------------------------------------------- JS values
undefined == <<>>
null == <<>>
Val(v) == <<v>>

\* o[k] of JavaScript: undefined when o has no own property k.
Prop(o, k) == IF k \in DOMAIN o THEN o[k] ELSE undefined

\* { ...a, ...b }: own properties of b (also those whose value is
\* undefined) override those of a.
Spread(a, b) == [k \in (DOMAIN a) \cup (DOMAIN b) |-> IF k \in DOMAIN b THEN b[k] ELSE a[k]]

\* x || d for a value x that is either undefined or truthy.
OrElse(x, d) == IF x = undefined THEN d ELSE x

\* ------------------------------------------------------------ task types
TODO == "todo"
IN_PROGRESS == "in_progress"
COMPLETED == "completed"
TaskStatus == {TODO, IN_PROGRESS, COMPLETED}

LOW == "low"
MEDIUM == "medium"
HIGH == "high"
TaskPriority == {LOW, MEDIUM, HIGH}

\* The properties of a Task.
TaskKeys == {"id", "title", "description", "status", "priority", "dueDate", "estimatedMinutes", "actualMinutes", "timerStartedAt", "createdAt", "updatedAt", "tags"}

\* Inputs of createTask that are drawn: a title only; a title and a
\* priority; and the object the create form submits (description
\* explicitly undefined, estimatedMinutes parsed from the form).
CreateTaskInput == {
    [title |-> Val("a")],
    [title |-> Val("b"), priority |-> Val(HIGH)],
    [title |-> Val("a"), description |-> undefined, priority |-> Val(LOW), estimatedMinutes |-> Val(30)] }

\* Inputs of updateTask that are drawn: a status change; the object the
\* edit form submits (an optional property passed as undefined); a
\* description with tags; the optional status passed as undefined.
UpdateTaskInput == {
    [status |-> Val(IN_PROGRESS)],
    [title |-> Val("b"), description |-> undefined, priority |-> Val(HIGH)],
    [description |-> Val("d"), tags |-> Val(<<"x">>)],
    [status |-> undefined] }

\* --------------------------------------------------------------- storage
TASKS == "@task_manager:tasks"
USER_PREFERENCES == "@task_manager:preferences"
THEME == "@task_manager:theme"
STORAGE_KEYS == {TASKS, USER_PREFERENCES, THEME}

\* JSON.stringify of an object: properties whose value is undefined are
\* left out of the text.  The text is modelled by the document it denotes.
StringifyObject(o) == [k \in {j \in DOMAIN o : o[j] # undefined} |-> o[k]]

\* JSON.stringify of an array of objects.
JSONstringify(value) == [i \in 1..Len(value) |-> StringifyObject(value[i])]

\* JSON.parse of a text: the document it denotes.
JSONparse(jsonValue) == jsonValue

\* setItem writing under the tasks key whatever key it is given.
setItemUnderTasks(st, key, value) == [st EXCEPT !["@task_manager:tasks"] = <<JSONstringify(value)>>]

\* setItem as a merging write would be: the records already under key whose
\* id the new value does not carry are kept in front of it.
setItemMerging(st, key, value) ==
    [st EXCEPT ![key] = <<SelectSeq(IF st[key] = <<>> THEN <<>> ELSE st[key][1],
                                    LAMBDA t : \A i \in 1..Len(value) : Prop(value[i], "id") # Prop(t, "id"))
                          \o JSONstringify(value)>>]

\* setItem writing the value under every key.
setItemUnderEveryKey(st, key, value) == [k \in DOMAIN st |-> <<JSONstringify(value)>>]

\* What AsyncStorage holds under key after StorageService.setItem(key, value);
\* an item is <<>> when the key was never written and <<text>> otherwise.
setItem(st, key, value) == [st EXCEPT ![key] = <<JSONstringify(value)>>]

\* setItem of a value that is one object, not an array of objects.
setItemObject(st, key, value) == [st EXCEPT ![key] = <<StringifyObject(value)>>]

\* removeItem wiping every key.
removeItemWipesAll(st, key) == [k \in DOMAIN st |-> <<>>]

\* What AsyncStorage holds after StorageService.removeItem(key).
removeItem(st, key) == [st EXCEPT ![key] = <<>>]

\* What AsyncStorage holds after StorageService.clear().
clear(st) == [k \in DOMAIN st |-> <<>>]

\* mergeItem with its two spreads exchanged: the existing value overrides
\* the partial one.
mergedExistingWins(existing, value) ==
    Spread(value, IF existing = <<>> THEN <<>> ELSE existing[1])

\* { ...existing, ...value } of mergeItem; existing is what getItem
\* resolved to, and spreading null adds no property.
merged(existing, value) ==
    Spread(IF existing = <<>> THEN <<>> ELSE existing[1], value)

\* StorageService.getItem(key): null (modelled as <<>>) or the parsed value.
getItem(st, key) == IF st[key] # <<>> THEN <<JSONparse(st[key][1])>> ELSE <<>>

\* getAllTasks answering [] whatever is persisted.
getAllTasksAlwaysEmpty(st) == <<>>

\* TaskService.getAllTasks: tasks || [].
getAllTasks(st) == IF getItem(st, TASKS) = <<>> THEN <<>> ELSE getItem(st, TASKS)[1]

\* ------------------------------------------------------- pure TaskService
\* generateId: `task_${Date.now()}_${random suffix}`.
RandomSuffixes == {"r1", "r2"}
generateId(ms, rnd) == [ms |-> ms, rnd |-> rnd]

\* new Date(ms).toISOString(): the ISO-8601 text of a millisecond count,
\* modelled by the two fields of the text that the counts of the model
\* reach, the seconds and the milliseconds.
toISOString(ms) == [s |-> ms \div 1000, sss |-> ms % 1000]

\* new Date(iso).getTime(): the millisecond count of an ISO-8601 text.
getTime(iso) == iso.s * 1000 + iso.sss

\* findIndex answering the last index, not -1, when no record matches.
findIndexOrLast(tasks, id) ==
    IF \E i \in 1..Len(tasks) : Prop(tasks[i], "id") = Val(id)
    THEN CHOOSE i \in 1..Len(tasks) : /\ Prop(tasks[i], "id") = Val(id)
                                      /\ \A j \in 1..(i - 1) : Prop(tasks[j], "id") # Val(id)
    ELSE Len(tasks)

\* tasks.findIndex(task => task.id === id); 0 stands for -1.
findIndex(tasks, id) ==
    IF \E i \in 1..Len(tasks) : Prop(tasks[i], "id") = Val(id)
    THEN CHOOSE i \in 1..Len(tasks) : /\ Prop(tasks[i], "id") = Val(id)
                                      /\ \A j \in 1..(i - 1) : Prop(tasks[j], "id") # Val(id)
    ELSE 0

\* tasks.filter(task => task.id !== id)
RECURSIVE filterOut(_, _)
filterOut(tasks, id) ==
    IF tasks = <<>> THEN <<>>
    ELSE IF Prop(Head(tasks), "id") # Val(id)
         THEN <<Head(tasks)>> \o filterOut(Tail(tasks), id)
         ELSE filterOut(Tail(tasks), id)

\* The not-found test of deleteTask with its comparison turned into one
\* that never holds.
nothingRemovedNever(tasks, filteredTasks) == Len(filteredTasks) > Len(tasks)

\* The not-found test of deleteTask: filteredTasks.length === tasks.length.
nothingRemoved(tasks, filteredTasks) == Len(filteredTasks) = Len(tasks)

\* createTask putting the new record in front of the existing ones.
appendTaskInFront(tasks, task) == <<task>> \o tasks

\* [...tasks, newTask] of createTask.
appendTask(tasks, task) == Append(tasks, task)

\* The object literal of createTask.
newTask(input, newId, createdMs, updatedMs) ==
    [id |-> Val(newId),
     title |-> Prop(input, "title"),
     description |-> Prop(input, "description"),
     status |-> Val(TODO),
     priority |-> OrElse(Prop(input, "priority"), Val(MEDIUM)),
     dueDate |-> Prop(input, "dueDate"),
     tags |-> OrElse(Prop(input, "tags"), Val(<<>>)),
     createdAt |-> Val(toISOString(createdMs)),
     updatedAt |-> Val(toISOString(updatedMs))]

\* updateTask with the two spreads in the wrong order: the existing record
\* overrides the input.
updatedTaskInputLoses(task, input, ms) ==
    Spread(Spread(input, task), [updatedAt |-> Val(toISOString(ms))])

\* updateTask refreshing createdAt where it should refresh updatedAt.
updatedTaskRefreshesCreatedAt(task, input, ms) ==
    Spread(Spread(task, input), [createdAt |-> Val(toISOString(ms))])

\* updateTask without the spread of the existing record: the record is
\* rebuilt from the input alone.
updatedTaskFromInputOnly(task, input, ms) ==
    Spread(input, [updatedAt |-> Val(toISOString(ms))])

\* The object literal of updateTask.
updatedTask(task, input, ms) ==
    Spread(Spread(task, input), [updatedAt |-> Val(toISOString(ms))])

\* toggleTaskStatus with the branches of its conditional exchanged.
toggleNewStatusInverted(task) ==
    IF Prop(task, "status") = Val(COMPLETED) THEN COMPLETED ELSE TODO

\* The conditional of toggleTaskStatus.
toggleNewStatus(task) ==
    IF Prop(task, "status") = Val(COMPLETED) THEN TODO ELSE COMPLETED

\* cycleTaskStatus with the COMPLETED case falling back one step instead of
\* wrapping around.
cycleNewStatusNoWrap(task) ==
    CASE Prop(task, "status") = Val(TODO) -> IN_PROGRESS
      [] Prop(task, "status") = Val(IN_PROGRESS) -> COMPLETED
      [] Prop(task, "status") = Val(COMPLETED) -> IN_PROGRESS
      [] OTHER -> TODO

\* The switch of cycleTaskStatus.
cycleNewStatus(task) ==
    CASE Prop(task, "status") = Val(TODO) -> IN_PROGRESS
      [] Prop(task, "status") = Val(IN_PROGRESS) -> COMPLETED
      [] Prop(task, "status") = Val(COMPLETED) -> TODO
      [] OTHER -> TODO

\* getTaskById answering the first record whatever its id.
findAny(tasks, id) == IF tasks = <<>> THEN <<>> ELSE <<tasks[1]>>

\* tasks.find(task => task.id === id) || null; null is modelled as <<>>
\* and a record found as <<record>>.
find(tasks, id) ==
    IF \E i \in 1..Len(tasks) : Prop(tasks[i], "id") = Val(id)
    THEN <<tasks[CHOOSE i \in 1..Len(tasks) : /\ Prop(tasks[i], "id") = Val(id)
                                              /\ \A j \in 1..(i - 1) : Prop(tasks[j], "id") # Val(id)]>>
    ELSE <<>>

\* getTasksByStatus keeping the records of every other status.
filterByStatusNegated(tasks, status) == SelectSeq(tasks, LAMBDA task : Prop(task, "status") # Val(status))

\* tasks.filter(task => task.status === status)
filterByStatus(tasks, status) == SelectSeq(tasks, LAMBDA task : Prop(task, "status") = Val(status))

\* tasks.filter(task => task.priority === priority)
filterByPriority(tasks, priority) == SelectSeq(tasks, LAMBDA task : Prop(task, "priority") = Val(priority))

\* The queries of searchTasks that are drawn.
Queries == {"a", "", "AB", "ba"}

\* The characters of the strings the model draws as titles, descriptions
\* and queries.
Chars(str) ==
    CASE str = "" -> <<>>
      [] str = "a" -> <<"a">>
      [] str = "b" -> <<"b">>
      [] str = "d" -> <<"d">>
      [] str = "Ab" -> <<"A", "b">>
      [] str = "AB" -> <<"A", "B">>
      [] str = "BA" -> <<"B", "A">>
      [] str = "ba" -> <<"b", "a">>

\* String.prototype.toLowerCase, as the characters of its result.
toLowerCase(str) ==
    [i \in 1..Len(Chars(str)) |-> CASE Chars(str)[i] = "A" -> "a"
                                     [] Chars(str)[i] = "B" -> "b"
                                     [] OTHER -> Chars(str)[i]]

\* String.prototype.includes on characters.
includes(chars, search) ==
    \E k \in 0..(Len(chars) - Len(search)) : SubSeq(chars, k + 1, k + Len(search)) = search

\* The predicate of the filter of searchTasks:
\* task.title.toLowerCase().includes(lowerQuery) ||
\* task.description?.toLowerCase().includes(lowerQuery)
searchMatches(task, lowerQuery) ==
    \/ includes(toLowerCase(Prop(task, "title")[1]), lowerQuery)
    \/ /\ Prop(task, "description") # undefined
       /\ includes(toLowerCase(Prop(task, "description")[1]), lowerQuery)

\* ----------------------------------------------------------------- state
VARIABLES
    store,       \* AsyncStorage: key -> <<>> or <<JSON text>>
    clock,       \* the last reading of Date.now() / new Date()
    pc,          \* where each call is suspended
    op,          \* the TaskService method each call entered
    id,          \* its id argument
    input,       \* its input argument (for toggle/cycle: the { status } built)
    tasks,       \* its local tasks: what getAllTasks resolved to
    toWrite,     \* the collection it handed to StorageService.setItem
    result,      \* the value it resolves to
    error,       \* the failure it rejects with
    lastWriter,  \* history: the call whose setItem completed last (0: none)
    overlapped,  \* history: per call, the calls whose setItem completed
                 \* after its read (0: a call whose slot was entered again)
    issued,      \* the number of calls issued so far
    ctxTasks,    \* TaskProvider: the tasks state
    loading,     \* TaskProvider: the loading state
    ctxError,    \* TaskProvider: the error state (null or a message)
    awaiting,    \* per call, the TaskProvider operation that awaits it
    loaded       \* history: a loadTasks has set the tasks state

\* The state of the TaskProvider and of its operations.
ctxVars == <<ctxTasks, loading, ctxError, awaiting, loaded>>

vars == <<store, clock, pc, op, id, input, tasks, toWrite, result, error, lastWriter, overlapped, issued, ctxTasks, loading, ctxError, awaiting, loaded>>

NoError == "none"
NotFound == "not found"
StorageFailure == "storage failure"
TypeError == "type error"

\* The TaskService methods that only read.
ReadOps == {"getAllTasks", "getTaskById", "searchTasks", "getTasksByStatus", "getTasksByPriority"}

\* The id slot of a call that takes no id.
NoId == generateId(0, "none")
\* An id argument that generateId never produced.
UnknownId == generateId(0, "unknown")
NoRecord == [none |-> undefined]


\* The id arguments drawn: the ids of the persisted records and an unknown one.
IdArgs == {tk.id[1] : tk \in {getAllTasks(store)[i] : i \in 1..Len(getAllTasks(store))}} \cup {UnknownId}

\* No call was issued yet and the TaskProvider is in its initial state.
NothingIssued ==
    /\ clock = 0
    /\ pc = [c \in Calls |-> "idle"]
    /\ op = [c \in Calls |-> "none"]
    /\ id = [c \in Calls |-> NoId]
    /\ input = [c \in Calls |-> NoRecord]
    /\ tasks = [c \in Calls |-> <<>>]
    /\ toWrite = [c \in Calls |-> <<>>]
    /\ result = [c \in Calls |-> NoRecord]
    /\ error = [c \in Calls |-> NoError]
    /\ lastWriter = 0
    /\ overlapped = [c \in Calls |-> {}]
    /\ issued = 0
    /\ ctxTasks = <<>>
    /\ loading = FALSE
    /\ ctxError = null
    /\ awaiting = [c \in Calls |-> "none"]
    /\ loaded = FALSE

Init ==
    /\ store = [k \in STORAGE_KEYS |-> <<>>]
    /\ NothingIssued

\* --------------------------------------------------------------- actions
\* A caller enters a TaskService method on a free slot (one never used, or
\* one whose previous call has settled); the method runs up to its first
\* await, the AsyncStorage read (for clearAllTasks: the write).
Begin(c, method, anId, anInput, at, limit) ==
    /\ pc[c] \in {"idle", "done", "failed"}
    /\ awaiting[c] = "none"
    /\ issued < limit
    /\ issued' = issued + 1
    /\ pc' = [pc EXCEPT ![c] = at]
    /\ op' = [op EXCEPT ![c] = method]
    /\ id' = [id EXCEPT ![c] = anId]
    /\ input' = [input EXCEPT ![c] = anInput]
    /\ tasks' = [tasks EXCEPT ![c] = <<>>]
    /\ toWrite' = [toWrite EXCEPT ![c] = <<>>]
    /\ result' = [result EXCEPT ![c] = NoRecord]
    /\ error' = [error EXCEPT ![c] = NoError]
    /\ lastWriter' = IF lastWriter = c THEN 0 ELSE lastWriter
    /\ overlapped' = [d \in Calls |-> IF d = c THEN {}
                                      ELSE IF c \in overlapped[d] THEN (overlapped[d] \ {c}) \cup {0}
                                      ELSE overlapped[d]]
    /\ UNCHANGED <<store, clock>>

\* A TaskService (or StorageService) method called directly, not through
\* the TaskProvider.
Enter(c, method, anId, anInput, at, limit) ==
    /\ Begin(c, method, anId, anInput, at, limit)
    /\ UNCHANGED ctxVars

CallCreateTask(c, inputs, limit) ==
    /\ Len(getAllTasks(store)) < MaxTasks
    /\ \E in \in inputs : Enter(c, "createTask", NoId, in, "get", limit)

CallUpdateTask(c, inputs, limit) ==
    \E i \in IdArgs, in \in inputs : Enter(c, "updateTask", i, in, "get", limit)

CallDeleteTask(c, limit) ==
    \E i \in IdArgs : Enter(c, "deleteTask", i, NoRecord, "get", limit)

CallToggleTaskStatus(c, limit) ==
    \E i \in IdArgs : Enter(c, "toggleTaskStatus", i, NoRecord, "lookup_get", limit)

CallCycleTaskStatus(c, limit) ==
    \E i \in IdArgs : Enter(c, "cycleTaskStatus", i, NoRecord, "lookup_get", limit)

\* clearAllTasks has no read: it hands [] to setItem at once.
CallClearAllTasks(c, limit) ==
    Enter(c, "clearAllTasks", NoId, NoRecord, "set", limit)

\* AsyncStorage.getItem completes: getAllTasks resolves to the collection
\* persisted at this moment.
GetItemResolves(c) ==
    /\ pc[c] \in {"get", "lookup_get"}
    /\ tasks' = [tasks EXCEPT ![c] = getAllTasks(store)]
    /\ pc' = [pc EXCEPT ![c] = IF pc[c] = "get" THEN "body" ELSE "lookup"]
    /\ overlapped' = [overlapped EXCEPT ![c] = {}]
    /\ UNCHANGED <<store, clock, op, id, input, toWrite, result, error, lastWriter, issued>>
    /\ UNCHANGED ctxVars

\* AsyncStorage.getItem fails: StorageService wraps the error and every
\* catch block on the way rethrows it.
GetItemRejects(c) ==
    /\ pc[c] \in {"get", "lookup_get"}
    /\ pc' = [pc EXCEPT ![c] = "failed"]
    /\ error' = [error EXCEPT ![c] = StorageFailure]
    /\ UNCHANGED <<store, clock, op, id, input, tasks, toWrite, result, lastWriter, overlapped, issued>>
    /\ UNCHANGED ctxVars

\* createTask after its read: builds the record (Date.now() for the id,
\* then new Date() twice; the clock may advance between the readings) and
\* hands [...tasks, newTask] to setItem.
CreateTaskBody(c) ==
    /\ pc[c] = "body"
    /\ op[c] = "createTask"
    /\ \E t0 \in clock..MaxTime, rnd \in RandomSuffixes :
       \E t1 \in t0..MaxTime :
       \E t2 \in t1..MaxTime :
          /\ result' = [result EXCEPT ![c] = newTask(input[c], generateId(t0, rnd), t1, t2)]
          /\ toWrite' = [toWrite EXCEPT ![c] = appendTask(tasks[c], result'[c])]
          /\ clock' = t2
    /\ pc' = [pc EXCEPT ![c] = "set"]
    /\ UNCHANGED <<store, op, id, input, tasks, error, lastWriter, overlapped, issued>>
    /\ UNCHANGED ctxVars

\* updateTask after its read: not found, or merge and hand the collection
\* to setItem.
UpdateTaskBody(c) ==
    /\ pc[c] = "body"
    /\ op[c] \in {"updateTask", "toggleTaskStatus", "cycleTaskStatus"}
    /\ IF findIndex(tasks[c], id[c]) = 0
       THEN /\ pc' = [pc EXCEPT ![c] = "failed"]
            /\ error' = [error EXCEPT ![c] = NotFound]
            /\ UNCHANGED <<clock, toWrite, result>>
       ELSE /\ \E t \in clock..MaxTime :
                 /\ result' = [result EXCEPT ![c] = updatedTask(tasks[c][findIndex(tasks[c], id[c])], input[c], t)]
                 /\ clock' = t
            /\ toWrite' = [toWrite EXCEPT ![c] = [tasks[c] EXCEPT ![findIndex(tasks[c], id[c])] = result'[c]]]
            /\ pc' = [pc EXCEPT ![c] = "set"]
            /\ UNCHANGED error
    /\ UNCHANGED <<store, op, id, input, tasks, lastWriter, overlapped, issued>>
    /\ UNCHANGED ctxVars

\* deleteTask after its read: not found when the filter removed nothing.
DeleteTaskBody(c) ==
    /\ pc[c] = "body"
    /\ op[c] = "deleteTask"
    /\ IF nothingRemoved(tasks[c], filterOut(tasks[c], id[c]))
       THEN /\ pc' = [pc EXCEPT ![c] = "failed"]
            /\ error' = [error EXCEPT ![c] = NotFound]
            /\ UNCHANGED toWrite
       ELSE /\ toWrite' = [toWrite EXCEPT ![c] = filterOut(tasks[c], id[c])]
            /\ pc' = [pc EXCEPT ![c] = "set"]
            /\ UNCHANGED error
    /\ UNCHANGED <<store, clock, op, id, input, tasks, result, lastWriter, overlapped, issued>>
    /\ UNCHANGED ctxVars

\* toggleTaskStatus / cycleTaskStatus after getTaskById: not found, or
\* call updateTask with newStatus, the status computed from the record
\* found; updateTask runs up to its own read.
StatusLookup(c, newStatus) ==
    /\ pc[c] = "lookup"
    /\ IF findIndex(tasks[c], id[c]) = 0
       THEN /\ pc' = [pc EXCEPT ![c] = "failed"]
            /\ error' = [error EXCEPT ![c] = NotFound]
            /\ UNCHANGED input
       ELSE /\ input' = [input EXCEPT ![c] = [status |-> Val(newStatus)]]
            /\ pc' = [pc EXCEPT ![c] = "get"]
            /\ UNCHANGED error
    /\ UNCHANGED <<store, clock, op, id, tasks, toWrite, result, lastWriter, overlapped, issued>>
    /\ UNCHANGED ctxVars

ToggleTaskStatusLookup(c) ==
    /\ op[c] = "toggleTaskStatus"
    /\ StatusLookup(c, toggleNewStatus(tasks[c][findIndex(tasks[c], id[c])]))

CycleTaskStatusLookup(c) ==
    /\ op[c] = "cycleTaskStatus"
    /\ StatusLookup(c, cycleNewStatus(tasks[c][findIndex(tasks[c], id[c])]))

\* AsyncStorage.setItem completes: the whole collection is replaced and the
\* call resolves.
SetItemResolves(c) ==
    /\ pc[c] = "set"
    /\ store' = setItem(store, TASKS, toWrite[c])
    /\ pc' = [pc EXCEPT ![c] = "done"]
    /\ lastWriter' = c
    /\ overlapped' = [d \in Calls |-> IF /\ d # c
                                         /\ \/ pc[d] \in {"body", "set"} /\ op[d] # "clearAllTasks"
                                            \/ pc[d] \in {"done", "failed"} /\ op[d] \in ReadOps
                                      THEN overlapped[d] \cup {c} ELSE overlapped[d]]
    /\ UNCHANGED <<clock, op, id, input, tasks, toWrite, result, error, issued>>
    /\ UNCHANGED ctxVars

\* AsyncStorage.setItem failing after it has written: the collection is
\* replaced and the call rejects all the same.
SetItemRejectsAfterWriting(c) ==
    /\ pc[c] = "set"
    /\ store' = setItem(store, TASKS, toWrite[c])
    /\ pc' = [pc EXCEPT ![c] = "failed"]
    /\ error' = [error EXCEPT ![c] = StorageFailure]
    /\ UNCHANGED <<clock, op, id, input, tasks, toWrite, result, lastWriter, overlapped, issued>>
    /\ UNCHANGED ctxVars

\* AsyncStorage.setItem fails: nothing is written, the call rejects.
SetItemRejects(c) ==
    /\ pc[c] = "set"
    /\ pc' = [pc EXCEPT ![c] = "failed"]
    /\ error' = [error EXCEPT ![c] = StorageFailure]
    /\ UNCHANGED <<store, clock, op, id, input, tasks, toWrite, result, lastWriter, overlapped, issued>>
    /\ UNCHANGED ctxVars

\* --------------------------------------------------- the reading methods
CallGetAllTasks(c, limit) ==
    Enter(c, "getAllTasks", NoId, NoRecord, "get", limit)

CallGetTaskById(c, limit) ==
    \E i \in IdArgs : Enter(c, "getTaskById", i, NoRecord, "get", limit)

CallGetTasksByStatus(c, limit) ==
    \E s \in TaskStatus : Enter(c, "getTasksByStatus", NoId, [status |-> Val(s)], "get", limit)

CallGetTasksByPriority(c, limit) ==
    \E p \in TaskPriority : Enter(c, "getTasksByPriority", NoId, [priority |-> Val(p)], "get", limit)

CallSearchTasks(c, limit) ==
    \E q \in Queries : Enter(c, "searchTasks", NoId, [query |-> Val(q)], "get", limit)

\* A reading method after its read: it resolves to value.
Return(c, value) ==
    /\ pc[c] = "body"
    /\ result' = [result EXCEPT ![c] = value]
    /\ pc' = [pc EXCEPT ![c] = "done"]
    /\ UNCHANGED <<store, clock, op, id, input, tasks, toWrite, error, lastWriter, overlapped, issued>>
    /\ UNCHANGED ctxVars

GetAllTasksBody(c) ==
    /\ op[c] = "getAllTasks"
    /\ Return(c, tasks[c])

GetTaskByIdBody(c) ==
    /\ op[c] = "getTaskById"
    /\ Return(c, find(tasks[c], id[c]))

GetTasksByStatusBody(c) ==
    /\ op[c] = "getTasksByStatus"
    /\ Return(c, filterByStatus(tasks[c], input[c].status[1]))

GetTasksByPriorityBody(c) ==
    /\ op[c] = "getTasksByPriority"
    /\ Return(c, filterByPriority(tasks[c], input[c].priority[1]))

\* searchTasks after its read: the filter calls title.toLowerCase() on
\* every record, which throws a TypeError on a record without a title;
\* the catch block rethrows it.
SearchTasksBody(c) ==
    /\ op[c] = "searchTasks"
    /\ IF \E i \in 1..Len(tasks[c]) : Prop(tasks[c][i], "title") = undefined
       THEN /\ pc[c] = "body"
            /\ pc' = [pc EXCEPT ![c] = "failed"]
            /\ error' = [error EXCEPT ![c] = TypeError]
            /\ UNCHANGED <<store, clock, op, id, input, tasks, toWrite, result, lastWriter, overlapped, issued>>
            /\ UNCHANGED ctxVars
       ELSE Return(c, SelectSeq(tasks[c], LAMBDA task : searchMatches(task, toLowerCase(input[c].query[1]))))

Next ==
    \/ \E c \in Calls : CallCreateTask(c, {[title |-> Val("a")]}, MaxCalls)
    \/ \E c \in Calls : CallUpdateTask(c, {[title |-> Val("b"), description |-> undefined, priority |-> Val(HIGH)]}, MaxCalls)
    \/ \E c \in Calls : CallDeleteTask(c, MaxCalls)
    \/ \E c \in Calls : CallToggleTaskStatus(c, MaxCalls)
    \/ \E c \in Calls : CallCycleTaskStatus(c, MaxCalls)
    \/ \E c \in Calls : CallClearAllTasks(c, MaxCalls)
    \/ \E c \in Calls : GetItemResolves(c)
    \/ \E c \in Calls : GetItemRejects(c)
    \/ \E c \in Calls : CreateTaskBody(c)
    \/ \E c \in Calls : UpdateTaskBody(c)
    \/ \E c \in Calls : DeleteTaskBody(c)
    \/ \E c \in Calls : ToggleTaskStatusLookup(c)
    \/ \E c \in Calls : CycleTaskStatusLookup(c)
    \/ \E c \in Calls : SetItemResolves(c)
    \/ \E c \in Calls : SetItemRejects(c)

\* Calls overlap freely; the inputs are the smallest ones.
Spec == Init /\ [][Next]_vars

\* Each call settles before the next is issued (all calls use one slot);
\* the inputs are all of CreateTaskInput and UpdateTaskInput.
NextSeq ==
    \/ \E c \in {1} : CallCreateTask(c, CreateTaskInput, MaxSeqCalls)
    \/ \E c \in {1} : CallUpdateTask(c, UpdateTaskInput, MaxSeqCalls)
    \/ \E c \in {1} : CallDeleteTask(c, MaxSeqCalls)
    \/ \E c \in {1} : CallToggleTaskStatus(c, MaxSeqCalls)
    \/ \E c \in {1} : CallCycleTaskStatus(c, MaxSeqCalls)
    \/ \E c \in {1} : CallClearAllTasks(c, MaxSeqCalls)
    \/ \E c \in Calls : GetItemResolves(c)
    \/ \E c \in Calls : GetItemRejects(c)
    \/ \E c \in Calls : CreateTaskBody(c)
    \/ \E c \in Calls : UpdateTaskBody(c)
    \/ \E c \in Calls : DeleteTaskBody(c)
    \/ \E c \in Calls : ToggleTaskStatusLookup(c)
    \/ \E c \in Calls : CycleTaskStatusLookup(c)
    \/ \E c \in Calls : SetItemResolves(c)
    \/ \E c \in Calls : SetItemRejects(c)

SpecSeq == Init /\ [][NextSeq]_vars

\* The first slot creates, updates and deletes, each call settling before
\* the next; the second slot runs the reading methods beside them.  The
\* titles and descriptions differ in case; an update passes the optional
\* title as undefined.
NextRead ==
    \/ \E c \in {1} : CallCreateTask(c, {[title |-> Val("Ab")], [title |-> Val("b"), description |-> Val("BA"), priority |-> Val(HIGH)]}, MaxReadCalls)
    \/ \E c \in {1} : CallUpdateTask(c, {[status |-> Val(COMPLETED)], [title |-> undefined]}, MaxReadCalls)
    \/ \E c \in {1} : CallDeleteTask(c, MaxReadCalls)
    \/ \E c \in {2} : CallGetAllTasks(c, MaxReadCalls)
    \/ \E c \in {2} : CallGetTaskById(c, MaxReadCalls)
    \/ \E c \in {2} : CallGetTasksByStatus(c, MaxReadCalls)
    \/ \E c \in {2} : CallGetTasksByPriority(c, MaxReadCalls)
    \/ \E c \in {2} : CallSearchTasks(c, MaxReadCalls)
    \/ \E c \in Calls : GetItemResolves(c)
    \/ \E c \in Calls : GetItemRejects(c)
    \/ \E c \in Calls : CreateTaskBody(c)
    \/ \E c \in Calls : UpdateTaskBody(c)
    \/ \E c \in Calls : DeleteTaskBody(c)
    \/ \E c \in Calls : GetAllTasksBody(c)
    \/ \E c \in Calls : GetTaskByIdBody(c)
    \/ \E c \in Calls : GetTasksByStatusBody(c)
    \/ \E c \in Calls : GetTasksByPriorityBody(c)
    \/ \E c \in Calls : SearchTasksBody(c)
    \/ \E c \in Calls : SetItemResolves(c)
    \/ \E c \in Calls : SetItemRejects(c)

SpecRead == Init /\ [][NextRead]_vars

\* ------------------------------------------ StorageService called directly
\* The keys the task collections are written under, and the key the
\* object that mergeItem merges is kept under.
CollectionKeys == {TASKS, THEME}
ObjectKey == USER_PREFERENCES

\* The task collections handed to setItem: none, the collection createTask
\* hands over for the first record (the optional properties of the new
\* record are present with the value undefined), and the one updateTask
\* hands over after a second record was created.
TaskCollections == {
    <<>>,
    <<newTask([title |-> Val("a")], generateId(0, "r1"), 0, 0)>>,
    <<updatedTask(StringifyObject(newTask([title |-> Val("a")], generateId(0, "r1"), 0, 0)), [status |-> Val(IN_PROGRESS)], 1),
      StringifyObject(newTask([title |-> Val("b"), priority |-> Val(HIGH)], generateId(1, "r2"), 1, 1))>> }

\* The partial values handed to mergeItem.
PartialValues == {
    [theme |-> Val("dark")],
    [sort |-> Val("date")],
    [theme |-> Val("light"), sort |-> Val("date")] }

StoragePcs == {"storage_set", "storage_get", "storage_remove", "storage_clear", "merge_get", "merge_set"}

CallSetItem(c, limit) ==
    \E k \in CollectionKeys, v \in TaskCollections :
        Enter(c, "setItem", NoId, [key |-> Val(k), value |-> Val(v)], "storage_set", limit)

CallGetItem(c, limit) ==
    \E k \in STORAGE_KEYS : Enter(c, "getItem", NoId, [key |-> Val(k)], "storage_get", limit)

CallRemoveItem(c, limit) ==
    \E k \in STORAGE_KEYS : Enter(c, "removeItem", NoId, [key |-> Val(k)], "storage_remove", limit)

CallClear(c, limit) ==
    Enter(c, "clear", NoId, NoRecord, "storage_clear", limit)

CallMergeItem(c, limit) ==
    \E v \in PartialValues :
        Enter(c, "mergeItem", NoId, [key |-> Val(ObjectKey), value |-> Val(v)], "merge_get", limit)

\* The key argument of a StorageService call.
KeyOf(c) == input[c].key[1]

\* A change of what storage holds by call c: c becomes the last writer, and
\* every other call that has read a key the change touches is marked.
Changes(c, keys) ==
    /\ lastWriter' = c
    /\ overlapped' = [d \in Calls |-> IF /\ d # c
                                         /\ op[d] \in {"getItem", "mergeItem"}
                                         /\ pc[d] \in {"merge_set", "done", "failed"}
                                         /\ KeyOf(d) \in keys
                                      THEN overlapped[d] \cup {c} ELSE overlapped[d]]

\* AsyncStorage.setItem of StorageService.setItem completes.
StorageSetItemResolves(c) ==
    /\ pc[c] = "storage_set"
    /\ store' = setItem(store, KeyOf(c), input[c].value[1])
    /\ pc' = [pc EXCEPT ![c] = "done"]
    /\ Changes(c, {KeyOf(c)})
    /\ UNCHANGED <<clock, op, id, input, tasks, toWrite, result, error, issued>>
    /\ UNCHANGED ctxVars

\* AsyncStorage.getItem of StorageService.getItem completes.
StorageGetItemResolves(c) ==
    /\ pc[c] = "storage_get"
    /\ result' = [result EXCEPT ![c] = getItem(store, KeyOf(c))]
    /\ pc' = [pc EXCEPT ![c] = "done"]
    /\ UNCHANGED <<store, clock, op, id, input, tasks, toWrite, error, lastWriter, overlapped, issued>>
    /\ UNCHANGED ctxVars

\* AsyncStorage.removeItem completes.
RemoveItemResolves(c) ==
    /\ pc[c] = "storage_remove"
    /\ store' = removeItem(store, KeyOf(c))
    /\ pc' = [pc EXCEPT ![c] = "done"]
    /\ Changes(c, {KeyOf(c)})
    /\ UNCHANGED <<clock, op, id, input, tasks, toWrite, result, error, issued>>
    /\ UNCHANGED ctxVars

\* AsyncStorage.clear completes.
ClearResolves(c) ==
    /\ pc[c] = "storage_clear"
    /\ store' = clear(store)
    /\ pc' = [pc EXCEPT ![c] = "done"]
    /\ Changes(c, STORAGE_KEYS)
    /\ UNCHANGED <<clock, op, id, input, tasks, toWrite, result, error, issued>>
    /\ UNCHANGED ctxVars

\* The getItem of mergeItem completes: existing is kept in tasks, the
\* merged object is built and handed to setItem, which runs up to its
\* AsyncStorage.setItem.
MergeItemReads(c) ==
    /\ pc[c] = "merge_get"
    /\ tasks' = [tasks EXCEPT ![c] = getItem(store, KeyOf(c))]
    /\ toWrite' = [toWrite EXCEPT ![c] = merged(getItem(store, KeyOf(c)), input[c].value[1])]
    /\ pc' = [pc EXCEPT ![c] = "merge_set"]
    /\ overlapped' = [overlapped EXCEPT ![c] = {}]
    /\ UNCHANGED <<store, clock, op, id, input, result, error, lastWriter, issued>>
    /\ UNCHANGED ctxVars

\* The setItem of mergeItem completes.
MergeItemWrites(c) ==
    /\ pc[c] = "merge_set"
    /\ store' = setItemObject(store, KeyOf(c), toWrite[c])
    /\ pc' = [pc EXCEPT ![c] = "done"]
    /\ Changes(c, {KeyOf(c)})
    /\ UNCHANGED <<clock, op, id, input, tasks, toWrite, result, error, issued>>
    /\ UNCHANGED ctxVars

\* The AsyncStorage operation a StorageService call awaits fails: the call
\* rejects with the wrapped error and storage is as it was.
StorageRejects(c) ==
    /\ pc[c] \in StoragePcs
    /\ pc' = [pc EXCEPT ![c] = "failed"]
    /\ error' = [error EXCEPT ![c] = StorageFailure]
    /\ UNCHANGED <<store, clock, op, id, input, tasks, toWrite, result, lastWriter, overlapped, issued>>
    /\ UNCHANGED ctxVars

NextStorage ==
    \/ \E c \in Calls : CallSetItem(c, MaxStorageCalls)
    \/ \E c \in Calls : CallGetItem(c, MaxStorageCalls)
    \/ \E c \in Calls : CallRemoveItem(c, MaxStorageCalls)
    \/ \E c \in Calls : CallClear(c, MaxStorageCalls)
    \/ \E c \in Calls : CallMergeItem(c, MaxStorageCalls)
    \/ \E c \in Calls : StorageSetItemResolves(c)
    \/ \E c \in Calls : StorageGetItemResolves(c)
    \/ \E c \in Calls : RemoveItemResolves(c)
    \/ \E c \in Calls : ClearResolves(c)
    \/ \E c \in Calls : MergeItemReads(c)
    \/ \E c \in Calls : MergeItemWrites(c)
    \/ \E c \in Calls : StorageRejects(c)

\* StorageService alone, its calls overlapping freely.
SpecStorage == Init /\ [][NextStorage]_vars

\* TaskService on the first slot, each call settling before the next, while
\* the second slot writes the theme and preferences keys (and the tasks
\* key) through StorageService.
NextKeys ==
    \/ \E c \in {1} : CallCreateTask(c, {[title |-> Val("a")]}, MaxKeyCalls)
    \/ \E c \in {1} : CallUpdateTask(c, {[status |-> Val(IN_PROGRESS)]}, MaxKeyCalls)
    \/ \E c \in {1} : CallDeleteTask(c, MaxKeyCalls)
    \/ \E c \in {1} : CallCycleTaskStatus(c, MaxKeyCalls)
    \/ \E c \in {1} : CallClearAllTasks(c, MaxKeyCalls)
    \/ \E c \in {1} : CallGetAllTasks(c, MaxKeyCalls)
    \/ \E c \in {2} : CallSetItem(c, MaxKeyCalls)
    \/ \E c \in {2} : CallMergeItem(c, MaxKeyCalls)
    \/ \E c \in Calls : GetItemResolves(c)
    \/ \E c \in Calls : GetItemRejects(c)
    \/ \E c \in Calls : CreateTaskBody(c)
    \/ \E c \in Calls : UpdateTaskBody(c)
    \/ \E c \in Calls : DeleteTaskBody(c)
    \/ \E c \in Calls : CycleTaskStatusLookup(c)
    \/ \E c \in Calls : GetAllTasksBody(c)
    \/ \E c \in Calls : SetItemResolves(c)
    \/ \E c \in Calls : SetItemRejects(c)
    \/ \E c \in Calls : StorageSetItemResolves(c)
    \/ \E c \in Calls : MergeItemReads(c)
    \/ \E c \in Calls : MergeItemWrites(c)
    \/ \E c \in Calls : StorageRejects(c)

SpecKeys == Init /\ [][NextKeys]_vars

\* ------------------------------------------------------------ TaskProvider
\* The variables TaskService and StorageService work on.
serviceVars == <<store, clock, pc, op, id, input, tasks, toWrite, result, error, lastWriter, overlapped, issued>>

\* The errors thrown in StorageService and TaskService, all instances of Error.
Errors == {NotFound, StorageFailure, TypeError}

\* The message put in the error state, with the test of the conditional
\* never holding: always the fallback text.
errorMessageAlwaysFallback(err, fallback) == Val(fallback)

\* err instanceof Error ? err.message : fallback
errorMessage(err, fallback) == IF err \in Errors THEN Val(err) ELSE Val(fallback)

\* calculateStats(taskList)
calculateStats(taskList) ==
    [total |-> Len(taskList),
     completed |-> Len(filterByStatus(taskList, COMPLETED)),
     inProgress |-> Len(filterByStatus(taskList, IN_PROGRESS)),
     todo |-> Len(filterByStatus(taskList, TODO))]

\* prevTasks.map(task => task.id === id ? updatedTask : task)
replaceTask(prevTasks, anId, task) ==
    [i \in 1..Len(prevTasks) |-> IF Prop(prevTasks[i], "id") = Val(anId) THEN task ELSE prevTasks[i]]

\* What storage holds when the application starts: nothing, or the
\* collection an earlier session persisted.
EarlierSessions == {
    <<>>,
    <<JSONstringify(<<newTask([title |-> Val("a")], generateId(0, "r0"), 0, 0)>>)>> }

InitProvider ==
    /\ \E v \in EarlierSessions : store = [k \in STORAGE_KEYS |-> IF k = TASKS THEN v ELSE <<>>]
    /\ NothingIssued

\* The id arguments drawn for the TaskProvider: the ids of the persisted
\* records, of the records in the tasks state, and an unknown one.
ProviderIdArgs == IdArgs \cup {tk.id[1] : tk \in {ctxTasks[i] : i \in 1..Len(ctxTasks)}}

\* An operation of the TaskProvider runs up to its await of the
\* TaskService call: setError(null), and setLoading(true) in loadTasks.
Await(c, operation) ==
    /\ awaiting' = [awaiting EXCEPT ![c] = operation]
    /\ ctxError' = null
    /\ loading' = IF operation \in {"loadTasks", "refreshTasks"} THEN TRUE ELSE loading
    /\ UNCHANGED <<ctxTasks, loaded>>

\* loadTasks, called by the effect that runs when the provider mounts.
ProviderLoadTasks(c, limit) ==
    /\ issued = 0
    /\ Begin(c, "getAllTasks", NoId, NoRecord, "get", limit)
    /\ Await(c, "loadTasks")

\* refreshTasks: await loadTasks().
ProviderRefreshTasks(c, limit) ==
    /\ issued > 0
    /\ Begin(c, "getAllTasks", NoId, NoRecord, "get", limit)
    /\ Await(c, "refreshTasks")

ProviderCreateTask(c, inputs, limit) ==
    /\ issued > 0
    /\ Len(getAllTasks(store)) < MaxTasks
    /\ \E in \in inputs : Begin(c, "createTask", NoId, in, "get", limit)
    /\ Await(c, "createTask")

ProviderUpdateTask(c, inputs, limit) ==
    /\ issued > 0
    /\ \E i \in ProviderIdArgs, in \in inputs : Begin(c, "updateTask", i, in, "get", limit)
    /\ Await(c, "updateTask")

ProviderDeleteTask(c, limit) ==
    /\ issued > 0
    /\ \E i \in ProviderIdArgs : Begin(c, "deleteTask", i, NoRecord, "get", limit)
    /\ Await(c, "deleteTask")

ProviderToggleTaskStatus(c, limit) ==
    /\ issued > 0
    /\ \E i \in ProviderIdArgs : Begin(c, "toggleTaskStatus", i, NoRecord, "lookup_get", limit)
    /\ Await(c, "toggleTaskStatus")

ProviderCycleTaskStatus(c, limit) ==
    /\ issued > 0
    /\ \E i \in ProviderIdArgs : Begin(c, "cycleTaskStatus", i, NoRecord, "lookup_get", limit)
    /\ Await(c, "cycleTaskStatus")

\* The TaskService call an operation awaits has settled and the operation
\* runs to its end: on success setTasks with newTasks, in the catch block
\* setError with the message of the error.
Continues(c, operation, newTasks, fallback) ==
    /\ awaiting[c] = operation
    /\ pc[c] \in {"done", "failed"}
    /\ awaiting' = [awaiting EXCEPT ![c] = "none"]
    /\ IF pc[c] = "done"
       THEN /\ ctxTasks' = newTasks
            /\ UNCHANGED ctxError
       ELSE /\ ctxError' = errorMessage(error[c], fallback)
            /\ UNCHANGED ctxTasks
    /\ UNCHANGED serviceVars

\* loadTasks after its await: setTasks(loadedTasks) or setError, and
\* setLoading(false) in the finally block.
LoadTasksContinues(c) ==
    /\ \E operation \in {"loadTasks", "refreshTasks"} :
           Continues(c, operation, result[c], "Failed to load tasks")
    /\ loading' = FALSE
    /\ loaded' = (loaded \/ pc[c] = "done")

CreateTaskContinues(c) ==
    /\ Continues(c, "createTask", appendTask(ctxTasks, result[c]), "Failed to create task")
    /\ UNCHANGED <<loading, loaded>>

UpdateTaskContinues(c) ==
    /\ Continues(c, "updateTask", replaceTask(ctxTasks, id[c], result[c]), "Failed to update task")
    /\ UNCHANGED <<loading, loaded>>

DeleteTaskContinues(c) ==
    /\ Continues(c, "deleteTask", filterOut(ctxTasks, id[c]), "Failed to delete task")
    /\ UNCHANGED <<loading, loaded>>

ToggleTaskStatusContinues(c) ==
    /\ Continues(c, "toggleTaskStatus", replaceTask(ctxTasks, id[c], result[c]), "Failed to toggle task status")
    /\ UNCHANGED <<loading, loaded>>

CycleTaskStatusContinues(c) ==
    /\ Continues(c, "cycleTaskStatus", replaceTask(ctxTasks, id[c], result[c]), "Failed to cycle task status")
    /\ UNCHANGED <<loading, loaded>>

\* The steps of TaskService on behalf of the TaskProvider.
ServiceSteps ==
    \/ \E c \in Calls : GetItemResolves(c)
    \/ \E c \in Calls : GetItemRejects(c)
    \/ \E c \in Calls : GetAllTasksBody(c)
    \/ \E c \in Calls : CreateTaskBody(c)
    \/ \E c \in Calls : UpdateTaskBody(c)
    \/ \E c \in Calls : DeleteTaskBody(c)
    \/ \E c \in Calls : ToggleTaskStatusLookup(c)
    \/ \E c \in Calls : CycleTaskStatusLookup(c)
    \/ \E c \in Calls : SetItemResolves(c)
    \/ \E c \in Calls : SetItemRejects(c)

\* The operations of the TaskProvider overlap freely.
NextProvider ==
    \/ \E c \in Calls : ProviderLoadTasks(c, MaxProviderCalls)
    \/ \E c \in Calls : ProviderRefreshTasks(c, MaxProviderCalls)
    \/ \E c \in Calls : ProviderCreateTask(c, {[title |-> Val("a")]}, MaxProviderCalls)
    \/ \E c \in Calls : ProviderUpdateTask(c, {[title |-> Val("b")]}, MaxProviderCalls)
    \/ \E c \in Calls : ProviderDeleteTask(c, MaxProviderCalls)
    \/ \E c \in Calls : ProviderToggleTaskStatus(c, MaxProviderCalls)
    \/ \E c \in Calls : ProviderCycleTaskStatus(c, MaxProviderCalls)
    \/ \E c \in Calls : LoadTasksContinues(c)
    \/ \E c \in Calls : CreateTaskContinues(c)
    \/ \E c \in Calls : UpdateTaskContinues(c)
    \/ \E c \in Calls : DeleteTaskContinues(c)
    \/ \E c \in Calls : ToggleTaskStatusContinues(c)
    \/ \E c \in Calls : CycleTaskStatusContinues(c)
    \/ ServiceSteps

SpecProvider == InitProvider /\ [][NextProvider]_vars

\* Each operation of the TaskProvider settles before the next is issued
\* (all use one slot); an update passes the optional status as undefined.
NextProviderSeq ==
    \/ \E c \in {1} : ProviderLoadTasks(c, MaxProviderSeqCalls)
    \/ \E c \in {1} : ProviderRefreshTasks(c, MaxProviderSeqCalls)
    \/ \E c \in {1} : ProviderCreateTask(c, {[title |-> Val("a")], [title |-> Val("b"), description |-> undefined, priority |-> Val(HIGH)]}, MaxProviderSeqCalls)
    \/ \E c \in {1} : ProviderUpdateTask(c, {[title |-> Val("b"), description |-> undefined, priority |-> Val(HIGH)], [status |-> undefined]}, MaxProviderSeqCalls)
    \/ \E c \in {1} : ProviderDeleteTask(c, MaxProviderSeqCalls)
    \/ \E c \in {1} : ProviderToggleTaskStatus(c, MaxProviderSeqCalls)
    \/ \E c \in {1} : ProviderCycleTaskStatus(c, MaxProviderSeqCalls)
    \/ \E c \in Calls : LoadTasksContinues(c)
    \/ \E c \in Calls : CreateTaskContinues(c)
    \/ \E c \in Calls : UpdateTaskContinues(c)
    \/ \E c \in Calls : DeleteTaskContinues(c)
    \/ \E c \in Calls : ToggleTaskStatusContinues(c)
    \/ \E c \in Calls : CycleTaskStatusContinues(c)
    \/ ServiceSteps

SpecProviderSeq == InitProvider /\ [][NextProviderSeq]_vars

\* ================================================================ claims
Range(s) == {s[i] : i \in 1..Len(s)}

\* The persisted collection.
Persisted == getAllTasks(store)

\* The ids carried by the records of a collection.
IdsOf(ts) == {Prop(t, "id") : t \in Range(ts)}

\* The calls that read the whole collection and write it back.
ReadModifyWrite == {"createTask", "updateTask", "deleteTask", "toggleTaskStatus", "cycleTaskStatus"}

\* p's write landed after q's read and before q's write, both succeeded,
\* and nothing was written after q's write.
LostUpdateRace(p, q) ==
    /\ p # q
    /\ op[p] \in ReadModifyWrite /\ op[q] \in ReadModifyWrite
    /\ pc[p] = "done" /\ pc[q] = "done"
    /\ p \in overlapped[q]
    /\ lastWriter = q

\* C1: when two mutating calls race (the first write lands between the
\* second call's read and its write), the persisted collection is exactly
\* the collection the last writer computed from its own snapshot: every
\* persisted record is a record of that snapshot or the last writer's own
\* result, and a record the first call created is absent.
C1_LostUpdate ==
    \A p \in Calls, q \in Calls :
        LostUpdateRace(p, q) =>
            /\ store[TASKS] = <<JSONstringify(toWrite[q])>>
            /\ Range(Persisted) \subseteq Range(tasks[q]) \cup {StringifyObject(result[q])}
            /\ (op[p] = "createTask" /\ Prop(result[p], "id") \notin IdsOf(tasks[q]) /\ Prop(result[p], "id") # Prop(result[q], "id"))
                   => Prop(result[p], "id") \notin IdsOf(Persisted)

\* Two createTask calls raced, both reported success, and the record of
\* the first is not in the persisted collection.
C1_Witness ==
    \E p \in Calls, q \in Calls :
        /\ LostUpdateRace(p, q)
        /\ op[p] = "createTask" /\ op[q] = "createTask"
        /\ tasks[p] = tasks[q]
        /\ Prop(result[p], "id") \notin IdsOf(Persisted)
        /\ Len(Persisted) = Len(tasks[q]) + 1

\* The first record of ts that carries the id i (0: none).
FirstMatch(ts, i) ==
    IF Val(i) \in IdsOf(ts)
    THEN CHOOSE k \in 1..Len(ts) : /\ Prop(ts[k], "id") = Val(i)
                                    /\ \A j \in 1..(k - 1) : Prop(ts[j], "id") # Val(i)
    ELSE 0

\* The record the call found in the collection it read.
Prior(c) == tasks[c][FirstMatch(tasks[c], id[c])]

\* The record the call left in the persisted collection, where it found Prior.
Stored(c) == Persisted[FirstMatch(tasks[c], id[c])]

\* The instants a record's createdAt and updatedAt denote.
CreatedAtMs(t) == getTime(Prop(t, "createdAt")[1])
UpdatedAtMs(t) == getTime(Prop(t, "updatedAt")[1])

\* C2: createTask with an input that carries only a title returns and
\* persists a record with status TODO, priority MEDIUM, tags [] and
\* createdAt equal to updatedAt.
C2_TitleOnlyDefaults ==
    \A c \in Calls :
        (op[c] = "createTask" /\ DOMAIN input[c] = {"title"} /\ pc[c] \in {"set", "done"}) =>
            /\ Prop(result[c], "status") = Val(TODO)
            /\ Prop(result[c], "priority") = Val(MEDIUM)
            /\ Prop(result[c], "tags") = Val(<<>>)
            /\ Prop(result[c], "createdAt") = Prop(result[c], "updatedAt")
            /\ (pc[c] = "done" /\ lastWriter = c) => Persisted[Len(Persisted)] = StringifyObject(result[c])

\* A call that went through updateTask and resolved.
UpdateDone(c) ==
    /\ op[c] \in {"updateTask", "toggleTaskStatus", "cycleTaskStatus"}
    /\ pc[c] = "done"

\* Every property the input names has the input's value in the record
\* returned, every other property but updatedAt is as in the prior record,
\* and the record persisted is the record returned.
UpdateMerges(c) ==
    /\ \A k \in DOMAIN input[c] : Prop(result[c], k) = input[c][k]
    /\ \A k \in TaskKeys \ (DOMAIN input[c] \cup {"updatedAt"}) : Prop(result[c], k) = Prop(Prior(c), k)
    /\ lastWriter = c => Stored(c) = StringifyObject(result[c])

\* C3 as stated: after a successful updateTask the record's updatedAt is
\* strictly greater than before, named fields take the input's values and
\* the other fields are unchanged.
C3_UpdatedAtStrictlyIncreases ==
    \A c \in Calls :
        UpdateDone(c) =>
            /\ UpdatedAtMs(result[c]) > UpdatedAtMs(Prior(c))
            /\ UpdateMerges(c)

\* C3 as amended: after a successful updateTask the record's updatedAt is
\* the reading of the clock taken by the call, which is never less than
\* the prior updatedAt (and equal to it when the clock has not advanced);
\* named fields take the input's values and the other fields are unchanged.
C3_UpdatedAtNeverDecreases ==
    \A c \in Calls :
        UpdateDone(c) =>
            /\ UpdatedAtMs(result[c]) >= UpdatedAtMs(Prior(c))
            /\ UpdatedAtMs(result[c]) <= clock
            /\ UpdateMerges(c)

\* An update through the edit form changed the title, erased a description
\* and kept the tags, within the millisecond of the record's last write.
C3_Witness ==
    \E c \in Calls :
        /\ UpdateDone(c) /\ op[c] = "updateTask" /\ lastWriter = c
        /\ DOMAIN input[c] = {"title", "description", "priority"}
        /\ Prop(Prior(c), "title") # Prop(result[c], "title")
        /\ Prop(Prior(c), "description") = Val("d")
        /\ Prop(Stored(c), "description") = undefined
        /\ Prop(Stored(c), "tags") = Val(<<"x">>)
        /\ Prop(result[c], "updatedAt") = Prop(Prior(c), "updatedAt")

\* The successor of a status in the cycle TODO -> IN_PROGRESS -> COMPLETED -> TODO.
CycleSuccessor(s) ==
    CASE s = TODO -> IN_PROGRESS
      [] s = IN_PROGRESS -> COMPLETED
      [] s = COMPLETED -> TODO

\* The record a cycleTaskStatus on task leaves, but for its updatedAt.
Cycled(task) == Spread(task, [status |-> Val(cycleNewStatus(task))])

\* C4: cycleTaskStatus run to completion with nothing interleaved persists
\* the successor of the task's status in the cycle, and three such steps
\* from the task bring its status back.
C4_CycleStatus ==
    \A c \in Calls :
        (op[c] = "cycleTaskStatus" /\ pc[c] = "done" /\ Prop(Prior(c), "status") \in {Val(s) : s \in TaskStatus}) =>
            /\ Prop(result[c], "status") = Val(CycleSuccessor(Prop(Prior(c), "status")[1]))
            /\ Prop(Stored(c), "status") = Val(CycleSuccessor(Prop(Prior(c), "status")[1]))
            /\ Prop(Cycled(Cycled(Cycled(Prior(c)))), "status") = Prop(Prior(c), "status")
            /\ Prop(Cycled(Cycled(Stored(c))), "status") = Prop(Prior(c), "status")

\* A cycleTaskStatus completed on a COMPLETED task and persisted TODO.
C4_Witness ==
    \E c \in Calls :
        /\ op[c] = "cycleTaskStatus" /\ pc[c] = "done"
        /\ Prop(Prior(c), "status") = Val(COMPLETED)
        /\ Prop(Stored(c), "status") = Val(TODO)

\* The status a toggleTaskStatus on a task whose status lies in the three
\* has persisted when it resolves.
ToggleGives(c, s) ==
    /\ Prop(result[c], "status") = Val(s)
    /\ Prop(Stored(c), "status") = Val(s)

ToggleDoneOn(c, s) ==
    /\ op[c] = "toggleTaskStatus" /\ pc[c] = "done"
    /\ Prop(Prior(c), "status") = Val(s)

\* C5 as stated: toggleTaskStatus turns COMPLETED into TODO, TODO into
\* COMPLETED, and collapses IN_PROGRESS to TODO.
C5_ToggleCollapsesInProgress ==
    \A c \in Calls :
        /\ ToggleDoneOn(c, COMPLETED) => ToggleGives(c, TODO)
        /\ ToggleDoneOn(c, TODO) => ToggleGives(c, COMPLETED)
        /\ ToggleDoneOn(c, IN_PROGRESS) => ToggleGives(c, TODO)

\* C5 as amended: toggleTaskStatus turns COMPLETED into TODO and every
\* other status, TODO and IN_PROGRESS alike, into COMPLETED.
C5_ToggleCompletion ==
    \A c \in Calls :
        /\ ToggleDoneOn(c, COMPLETED) => ToggleGives(c, TODO)
        /\ ToggleDoneOn(c, TODO) => ToggleGives(c, COMPLETED)
        /\ ToggleDoneOn(c, IN_PROGRESS) => ToggleGives(c, COMPLETED)

\* A toggleTaskStatus completed on an IN_PROGRESS task and persisted COMPLETED.
C5_Witness ==
    \E c \in Calls : ToggleDoneOn(c, IN_PROGRESS) /\ ToggleGives(c, COMPLETED)

\* The call got past its read and its id matches no record of the
\* collection it read.
MissedIn(c, methods) ==
    /\ op[c] \in methods
    /\ pc[c] \in {"set", "done", "failed"}
    /\ error[c] # StorageFailure
    /\ Val(id[c]) \notin IdsOf(tasks[c])

\* The call rejected with not-found, handed nothing to setItem, completed
\* no write, and the persisted collection is the one it read.
RejectedUntouched(c) ==
    /\ pc[c] = "failed"
    /\ error[c] = NotFound
    /\ toWrite[c] = <<>>
    /\ lastWriter # c
    /\ Persisted = tasks[c]
    /\ Len(Persisted) = Len(tasks[c])

\* C6: deleteTask with an id that matches no record signals not-found,
\* performs no storage write and leaves the persisted collection as it was.
C6_DeleteMissing ==
    \A c \in Calls : MissedIn(c, {"deleteTask"}) => RejectedUntouched(c)

\* A deleteTask of an absent id on a collection that holds a record.
C6_Witness ==
    \E c \in Calls : MissedIn(c, {"deleteTask"}) /\ pc[c] = "failed" /\ Len(Persisted) > 0

\* C7: updateTask, cycleTaskStatus and toggleTaskStatus with an id that
\* matches no record signal not-found and leave the persisted collection
\* as it was.
C7_UpdateMissing ==
    \A c \in Calls :
        MissedIn(c, {"updateTask", "cycleTaskStatus", "toggleTaskStatus"}) => RejectedUntouched(c)

\* An updateTask of an absent id on a collection that holds a record.
C7_Witness ==
    \E c \in Calls : MissedIn(c, {"updateTask"}) /\ pc[c] = "failed" /\ Len(Persisted) > 0

\* C8: no two records of the persisted collection have the same id.
C8_UniqueIds ==
    \A i \in 1..Len(Persisted), j \in 1..Len(Persisted) :
        i # j => Prop(Persisted[i], "id") # Prop(Persisted[j], "id")

\* C9: every record of the persisted collection has createdAt <= updatedAt
\* (the clock of the model never goes backwards).
C9_CreatedNotAfterUpdated ==
    \A t \in Range(Persisted) : CreatedAtMs(t) <= UpdatedAtMs(t)

\* An updateTask has persisted a record whose updatedAt is later than its
\* createdAt.
C9_Witness ==
    \E c \in Calls :
        /\ UpdateDone(c) /\ lastWriter = c
        /\ CreatedAtMs(Stored(c)) < UpdatedAtMs(Stored(c))
        /\ Prop(Prior(c), "createdAt") = Prop(Prior(c), "updatedAt")

\* C10: the status of every record of the persisted collection is one of
\* TODO, IN_PROGRESS, COMPLETED.
C10_StatusEnumerated ==
    \A t \in Range(Persisted) : Prop(t, "status") \in {Val(s) : s \in TaskStatus}

\* C11: every successful updateTask, cycleTaskStatus or toggleTaskStatus
\* returns, and persists in the place of the record it found, a record with
\* the id and the createdAt of the record it found.
C11_IdAndCreatedAtKept ==
    \A c \in Calls :
        UpdateDone(c) =>
            /\ Prop(result[c], "id") = Val(id[c])
            /\ Prop(result[c], "id") = Prop(Prior(c), "id")
            /\ Prop(result[c], "createdAt") = Prop(Prior(c), "createdAt")
            /\ lastWriter = c => /\ Prop(Stored(c), "id") = Prop(Prior(c), "id")
                                 /\ Prop(Stored(c), "createdAt") = Prop(Prior(c), "createdAt")

\* A status change and an edit have each rewritten a record, at a later
\* millisecond than its creation, and its id and createdAt are still those
\* of the record found.
C11_Witness ==
    \E c \in Calls :
        /\ UpdateDone(c) /\ lastWriter = c
        /\ op[c] = "updateTask" /\ "title" \in DOMAIN input[c]
        /\ Prop(Prior(c), "status") = Val(IN_PROGRESS)
        /\ UpdatedAtMs(Stored(c)) > CreatedAtMs(Stored(c))
        /\ Prop(Stored(c), "id") = Prop(Prior(c), "id")
        /\ Prop(Stored(c), "createdAt") = Prop(Prior(c), "createdAt")

\* The records of ts whose id is not i, in the order of ts.
Without(ts, i) == SelectSeq(ts, LAMBDA t : Prop(t, "id") # Val(i))

\* A mutating call that resolved and whose write is the last one.
WroteLast(c, method) == op[c] = method /\ pc[c] = "done" /\ lastWriter = c

\* C14: the persisted collection is in creation order: createTask puts the
\* new record after all the records it read, updateTask, cycleTaskStatus
\* and toggleTaskStatus leave every other record at its place, deleteTask
\* leaves the remaining records in their order, and so the createdAt of
\* the records never decrease along the collection.
C14_CreationOrder ==
    /\ \A c \in Calls :
        /\ WroteLast(c, "createTask") =>
                Persisted = tasks[c] \o <<StringifyObject(result[c])>>
        /\ (UpdateDone(c) /\ lastWriter = c) =>
                /\ Len(Persisted) = Len(tasks[c])
                /\ \A i \in 1..Len(tasks[c]) : i # FirstMatch(tasks[c], id[c]) => Persisted[i] = tasks[c][i]
                /\ Prop(Stored(c), "id") = Val(id[c])
        /\ WroteLast(c, "deleteTask") => Persisted = Without(tasks[c], id[c])
    /\ \A i \in 1..Len(Persisted), j \in 1..Len(Persisted) :
        i < j => CreatedAtMs(Persisted[i]) <= CreatedAtMs(Persisted[j])

\* Three records were created one after another and the second was
\* deleted: the first and the third remain, in that order.
C14_Witness ==
    \E c \in Calls :
        /\ WroteLast(c, "deleteTask")
        /\ Len(tasks[c]) = 3
        /\ Prop(tasks[c][2], "id") = Val(id[c])
        /\ Prop(tasks[c][1], "id") # Val(id[c]) /\ Prop(tasks[c][3], "id") # Val(id[c])
        /\ tasks[c][1] # tasks[c][3]
        /\ Persisted = <<tasks[c][1], tasks[c][3]>>

\* C15: a successful deleteTask(id) removes exactly one record, the one
\* whose id is id: no persisted record carries id afterwards, the
\* collection is one record shorter than the one read, and the other
\* records are unchanged.
C15_DeleteRemovesOne ==
    \A c \in Calls :
        WroteLast(c, "deleteTask") =>
            /\ Val(id[c]) \notin IdsOf(Persisted)
            /\ Len(Persisted) = Len(tasks[c]) - 1
            /\ Persisted = Without(tasks[c], id[c])

\* A reading method resolved and no write has landed since its read.
ReadCurrent(c, method) ==
    /\ op[c] = method
    /\ pc[c] = "done"
    /\ overlapped[c] = {}

\* C12: getAllTasks resolves, with no error, to the empty collection when
\* nothing is persisted under the tasks key and to the persisted
\* collection otherwise.
C12_GetAllTasks ==
    \A c \in Calls :
        ReadCurrent(c, "getAllTasks") =>
            /\ error[c] = NoError
            /\ store[TASKS] = <<>> => result[c] = <<>>
            /\ store[TASKS] # <<>> => result[c] = store[TASKS][1]

\* getAllTasks resolved to the empty collection, with no error, while the
\* tasks key had never been written.
C12_Witness ==
    \E c \in Calls :
        /\ ReadCurrent(c, "getAllTasks")
        /\ store[TASKS] = <<>>
        /\ result[c] = <<>>
        /\ error[c] = NoError

\* C13: getTaskById(id) resolves to the (first) persisted record whose id
\* is id when there is one, and to the empty result, with no error, when
\* there is none.
C13_GetTaskById ==
    \A c \in Calls :
        ReadCurrent(c, "getTaskById") =>
            /\ error[c] = NoError
            /\ Val(id[c]) \in IdsOf(Persisted) => result[c] = <<Persisted[FirstMatch(Persisted, id[c])]>>
            /\ Val(id[c]) \notin IdsOf(Persisted) => result[c] = <<>>

\* getTaskById resolved to the second of two persisted records.
C13_Witness ==
    \E c \in Calls :
        /\ ReadCurrent(c, "getTaskById")
        /\ Len(Persisted) = 2
        /\ Prop(Persisted[1], "id") # Val(id[c])
        /\ result[c] = <<Persisted[2]>>

\* A step of a reading method.
ReadStep(c) == op[c] \in ReadOps /\ op'[c] = op[c] /\ pc'[c] # pc[c]

\* The records getTasksByStatus and getTasksByPriority resolved to are the
\* persisted records whose status / priority is the argument, and a
\* reading method has handed nothing to setItem.
ReadResults ==
    \A c \in Calls :
        /\ ReadCurrent(c, "getTasksByStatus") =>
               result[c] = SelectSeq(Persisted, LAMBDA t : Prop(t, "status") = input[c].status)
        /\ ReadCurrent(c, "getTasksByPriority") =>
               result[c] = SelectSeq(Persisted, LAMBDA t : Prop(t, "priority") = input[c].priority)
        /\ op[c] \in ReadOps => toWrite[c] = <<>> /\ lastWriter # c

\* C17: no step of getAllTasks, getTaskById, searchTasks, getTasksByStatus
\* or getTasksByPriority changes what storage holds, and getTasksByStatus
\* and getTasksByPriority resolve to exactly the persisted records whose
\* status / priority equals the argument.
C17_ReadsDoNotWrite ==
    /\ []ReadResults
    /\ [][\A c \in Calls : ReadStep(c) => store' = store]_vars

\* getTasksByStatus(COMPLETED) resolved to the second of two persisted
\* records, the first being TODO.
C17_Witness ==
    \E c \in Calls :
        /\ Len(Persisted) = 2
        /\ ReadCurrent(c, "getTasksByStatus")
        /\ input[c].status = Val(COMPLETED)
        /\ Prop(Persisted[1], "status") = Val(TODO)
        /\ result[c] = <<Persisted[2]>>

\* The characters of a string with every letter in upper case.
UpperChars(str) ==
    [i \in 1..Len(Chars(str)) |-> CASE Chars(str)[i] = "a" -> "A"
                                     [] Chars(str)[i] = "b" -> "B"
                                     [] Chars(str)[i] = "d" -> "D"
                                     [] OTHER -> Chars(str)[i]]

\* The string property k of t contains q as a substring, letter case
\* disregarded; a record without the property contains nothing.
ContainsIgnoringCase(t, k, q) ==
    /\ Prop(t, k) # undefined
    /\ \E n \in 0..(Len(UpperChars(Prop(t, k)[1])) - Len(UpperChars(q))) :
           \A i \in 1..Len(UpperChars(q)) : UpperChars(Prop(t, k)[1])[n + i] = UpperChars(q)[i]

\* searchTasks settled, its read had resolved, and no write has landed
\* since.
SearchSettled(c) ==
    /\ op[c] = "searchTasks"
    /\ pc[c] \in {"done", "failed"}
    /\ error[c] # StorageFailure
    /\ overlapped[c] = {}

\* What C16 says of a searchTasks call.
SearchAnswers(c) ==
    /\ error[c] = NoError
    /\ pc[c] = "done"
    /\ input[c].query = Val("") => result[c] = Persisted
    /\ input[c].query # Val("") =>
           result[c] = SelectSeq(Persisted, LAMBDA t : \/ ContainsIgnoringCase(t, "title", input[c].query[1])
                                                       \/ ContainsIgnoringCase(t, "description", input[c].query[1]))

\* C16: searchTasks with the empty query resolves to the whole persisted
\* collection, and with a non-empty query to exactly the persisted records
\* whose title or description contains the query, letter case disregarded.
C16_SearchTasks ==
    \A c \in Calls : SearchSettled(c) => SearchAnswers(c)

\* Call w's setItem is the last change of storage, and call r's getItem of
\* the same key resolved after it.
RoundTrip(w, r) ==
    /\ op[w] = "setItem" /\ pc[w] = "done" /\ lastWriter = w
    /\ op[r] = "getItem" /\ pc[r] = "done" /\ error[r] = NoError
    /\ KeyOf(r) = KeyOf(w)
    /\ overlapped[r] = {}

\* C18 as stated: setItem(key, collection) followed by getItem(key), with
\* no write to the key in between, returns a collection equal to the
\* original.
C18_RoundTripEqual ==
    \A w \in Calls, r \in Calls :
        RoundTrip(w, r) => result[r] = input[w].value

\* Two collections have the same length and, record by record, the same
\* value for every property of a Task (a property that is absent reads as
\* undefined).
SameProperties(xs, ys) ==
    /\ Len(xs) = Len(ys)
    /\ \A i \in 1..Len(xs) : \A k \in TaskKeys : Prop(xs[i], k) = Prop(ys[i], k)

\* C18 as amended: the collection returned has the records of the
\* original, in order, with the same value for every property; a property
\* the original holds with the value undefined is absent from the record
\* returned.
C18_RoundTripSameProperties ==
    \A w \in Calls, r \in Calls :
        RoundTrip(w, r) =>
            /\ result[r] # <<>>
            /\ SameProperties(result[r][1], input[w].value[1])
            /\ \A i \in 1..Len(result[r][1]) :
                   DOMAIN result[r][1][i] = {k \in DOMAIN input[w].value[1][i] : input[w].value[1][i][k] # undefined}

\* A collection whose record has a property with the value undefined
\* (the description of a task created from a title only) went through
\* setItem and getItem under the theme key.
C18_Witness ==
    \E w \in Calls, r \in Calls :
        /\ RoundTrip(w, r)
        /\ KeyOf(w) = THEME
        /\ Len(input[w].value[1]) = 1
        /\ "description" \in DOMAIN input[w].value[1][1]
        /\ "description" \notin DOMAIN result[r][1][1]
        /\ Prop(result[r][1][1], "title") = Val("a")

\* A getItem resolved and nothing has changed its key since.
GetCurrent(r) == op[r] = "getItem" /\ pc[r] = "done" /\ overlapped[r] = {}

\* Call w, of the given method, resolved and made the last change of storage.
ChangedLast(w, method) == op[w] = method /\ pc[w] = "done" /\ lastWriter = w

\* getItem resolves, with no error, to null for a key storage does not
\* hold, in particular for the key of the last removeItem and for every
\* key after the last clear.
AbsentReadsNull ==
    \A r \in Calls :
        GetCurrent(r) =>
            /\ error[r] = NoError
            /\ store[KeyOf(r)] = <<>> => result[r] = <<>>
            /\ \A w \in Calls :
                /\ (ChangedLast(w, "removeItem") /\ KeyOf(w) = KeyOf(r)) => result[r] = <<>>
                /\ ChangedLast(w, "clear") => result[r] = <<>>

\* The completion of removeItem(key) leaves storage without key and with
\* every other key as it was; the completion of clear() leaves it without
\* any key; and a key storage does not hold comes to be held only by the
\* completion of a setItem or of a mergeItem of that key.
RemovalSteps ==
    /\ \A c \in Calls :
        /\ (pc[c] = "storage_remove" /\ pc'[c] = "done") =>
                /\ store'[KeyOf(c)] = <<>>
                /\ \A k \in STORAGE_KEYS \ {KeyOf(c)} : store'[k] = store[k]
        /\ (pc[c] = "storage_clear" /\ pc'[c] = "done") =>
                \A k \in STORAGE_KEYS : store'[k] = <<>>
    /\ \A k \in STORAGE_KEYS :
        (store[k] = <<>> /\ store'[k] # <<>>) =>
            \E c \in Calls : pc[c] \in {"storage_set", "merge_set"} /\ pc'[c] = "done" /\ KeyOf(c) = k

\* C19: getItem(key) resolves to null, with no error, when key was never
\* written; after removeItem(key), getItem(key) resolves to null and the
\* other keys are unchanged; after clear(), getItem resolves to null for
\* every key.
C19_AbsentKeys ==
    /\ []AbsentReadsNull
    /\ [][RemovalSteps]_vars

\* removeItem took away one of two collections and getItem of its key
\* resolved to null, the other collection being still held.
C19_Witness ==
    \E w \in Calls, r \in Calls :
        /\ ChangedLast(w, "removeItem")
        /\ GetCurrent(r)
        /\ KeyOf(r) = KeyOf(w)
        /\ KeyOf(w) = TASKS
        /\ result[r] = <<>>
        /\ store[THEME] # <<>> /\ Len(store[THEME][1]) = 2

\* The object mergeItem read under its key (no property when it read null).
Existing(c) == IF tasks[c] = <<>> THEN <<>> ELSE tasks[c][1]

\* The partial value mergeItem was given.
Partial(c) == input[c].value[1]

\* C20: when mergeItem(key, partial) has made the last change of storage,
\* key holds the shallow merge of partial over the value the call read (no
\* property when the key was absent): the properties of partial have
\* partial's values, the other properties read are kept, and there is no
\* further property.  The read and the write are two steps: a property
\* that another mergeItem wrote under the key between them is not in the
\* value held, unless the call read it or partial has it.
C20_MergeItem ==
    \A c \in Calls :
        ChangedLast(c, "mergeItem") =>
            /\ store[KeyOf(c)] # <<>>
            /\ \A k \in DOMAIN Partial(c) : Prop(store[KeyOf(c)][1], k) = Partial(c)[k]
            /\ \A k \in DOMAIN Existing(c) \ DOMAIN Partial(c) : Prop(store[KeyOf(c)][1], k) = Existing(c)[k]
            /\ DOMAIN store[KeyOf(c)][1] \subseteq DOMAIN Existing(c) \cup DOMAIN Partial(c)
            /\ \A p \in overlapped[c] \ {0} :
                   (op[p] = "mergeItem" /\ pc[p] = "done") =>
                       \A k \in DOMAIN Partial(p) \ (DOMAIN Existing(c) \cup DOMAIN Partial(c)) :
                           Prop(store[KeyOf(c)][1], k) = undefined

\* Two mergeItem calls read the absent key, the first wrote { sort } and
\* the second then wrote { theme }: the sort property is lost.
C20_Witness ==
    \E p \in Calls, q \in Calls :
        /\ ChangedLast(q, "mergeItem")
        /\ p \in overlapped[q] /\ op[p] = "mergeItem" /\ pc[p] = "done"
        /\ tasks[q] = <<>>
        /\ DOMAIN Partial(p) = {"sort"}
        /\ DOMAIN Partial(q) = {"theme"}
        /\ Prop(store[ObjectKey][1], "sort") = undefined
        /\ Prop(store[ObjectKey][1], "theme") = Val("dark")

\* C21: when clearAllTasks has resolved and its write is the last one, the
\* tasks key holds the text of the empty collection and getAllTasks
\* resolves to the empty collection, whatever was persisted before.
C21_ClearAllTasks ==
    \A c \in Calls :
        WroteLast(c, "clearAllTasks") =>
            /\ error[c] = NoError
            /\ store[TASKS] = <<JSONstringify(<<>>)>>
            /\ getAllTasks(store) = <<>>

\* Another call read a collection that holds a record, clearAllTasks then
\* made the only write since that read, and nothing is persisted.
C21_Witness ==
    \E c \in Calls, p \in Calls :
        /\ WroteLast(c, "clearAllTasks")
        /\ pc[p] \in {"body", "set"}
        /\ Len(tasks[p]) > 0
        /\ overlapped[p] = {c}
        /\ store[TASKS] # <<>>
        /\ Persisted = <<>>

\* createTask, updateTask or deleteTask rejected with a storage failure.
StorageFailed(c) ==
    /\ op[c] \in {"createTask", "updateTask", "deleteTask"}
    /\ pc[c] = "failed"
    /\ error[c] = StorageFailure

\* A call that rejected with a storage failure has completed no write.
FailedWroteNothing ==
    \A c \in Calls :
        StorageFailed(c) => lastWriter # c

\* The step in which a storage read or write of the call fails leaves
\* storage as it was, the call having written nothing before; when the
\* write is the one that fails and no other call has written since the
\* call's read, the persisted collection is still the one the call read.
\* A call that has rejected takes no further step: it leaves that state
\* only when its caller issues a new call.
FailureSteps ==
    \A c \in Calls :
        /\ (op[c] \in {"createTask", "updateTask", "deleteTask"} /\ pc[c] # "failed" /\ pc'[c] = "failed" /\ error'[c] = StorageFailure) =>
                /\ store' = store
                /\ lastWriter # c /\ lastWriter' # c
                /\ (pc[c] = "set" /\ overlapped[c] = {}) => getAllTasks(store') = JSONstringify(tasks[c])
        /\ (StorageFailed(c) /\ pc'[c] # "failed") => issued' = issued + 1
        /\ (StorageFailed(c) /\ pc'[c] = "failed") => error'[c] = StorageFailure

C25_CreateKeepsInput ==
    \A c \in Calls :
        (op[c] = "createTask" /\ pc[c] \in {"set", "done"}) =>
            \A k \in DOMAIN input[c] :
                input[c][k] # undefined =>
                    /\ Prop(result[c], k) = input[c][k]
                    /\ WroteLast(c, "createTask") => Prop(Persisted[Len(Persisted)], k) = input[c][k]

\* The status that the first record of ts with the id i carries.
StatusIn(ts, i) == Prop(ts[FirstMatch(ts, i)], "status")

\* The write of a cycleTaskStatus call replaces a collection in which the
\* task has a status of the cycle, and leaves the task with the successor
\* of that status.
CycleWriteAdvances(c) ==
    (/\ op[c] = "cycleTaskStatus"
     /\ pc[c] = "set" /\ pc'[c] = "done"
     /\ Val(id[c]) \in IdsOf(Persisted)
     /\ StatusIn(Persisted, id[c]) \in {Val(s) : s \in TaskStatus}) =>
        /\ Val(id[c]) \in IdsOf(getAllTasks(store'))
        /\ StatusIn(getAllTasks(store'), id[c]) = Val(CycleSuccessor(StatusIn(Persisted, id[c])[1]))

\* C26: the status cycleTaskStatus writes is the cycle successor of the
\* status the task has in the collection the write replaces, whatever
\* other call completed between the lookup of cycleTaskStatus and its
\* write: no step of the cycle is lost or repeated.
C26_CycleNeverLosesAStep == [][\A c \in Calls : CycleWriteAdvances(c)]_vars

\* The methods of TaskService.
TaskServiceOps == ReadModifyWrite \cup ReadOps \cup {"clearAllTasks"}

\* A step of a TaskService call (its entry, the completion of its read or
\* of its write, a rejection) leaves the values under the preferences key
\* and the theme key as they are, and the collection a read resolves to is
\* the value under the tasks key.
TaskServiceStep(c) ==
    (op'[c] \in TaskServiceOps /\ (pc'[c] # pc[c] \/ op'[c] # op[c])) =>
        /\ store'[USER_PREFERENCES] = store[USER_PREFERENCES]
        /\ store'[THEME] = store[THEME]
        /\ (pc[c] \in {"get", "lookup_get"} /\ pc'[c] \in {"body", "lookup"}) =>
               tasks'[c] = IF store[TASKS] = <<>> THEN <<>> ELSE store[TASKS][1]

\* C24: every TaskService operation reads and writes the tasks key only;
\* the values under the preferences key and the theme key are unchanged by
\* it.
C24_OnlyTasksKey == [][\A c \in Calls : TaskServiceStep(c)]_vars

\* The theme key holds a collection of two records and the preferences key
\* an object, and createTask has since replaced what the tasks key holds
\* with a collection of its own.
C24_Witness ==
    \E c \in Calls :
        /\ WroteLast(c, "createTask")
        /\ store[USER_PREFERENCES] # <<>>
        /\ store[THEME] # <<>>
        /\ Len(store[THEME][1]) = 2
        /\ Len(Persisted) = 1
        /\ Persisted[1] = StringifyObject(result[c])

\* An operation of the TaskProvider fails: it ends with the TaskService
\* call it awaited rejected.
ProviderFails(c) == awaiting[c] # "none" /\ awaiting'[c] = "none" /\ pc[c] = "failed"

\* The step in which an operation of the TaskProvider fails leaves the
\* tasks state as it is and puts the message of the failure in the error
\* state; and the tasks state changes in no step but the one in which an
\* operation ends with its TaskService call resolved, so an operation that
\* fails has not changed it before either.
ProviderFailureSteps ==
    /\ \A c \in Calls :
        ProviderFails(c) =>
            /\ ctxTasks' = ctxTasks
            /\ error[c] \in {StorageFailure, NotFound}
            /\ ctxError' = Val(error[c])
    /\ ctxTasks' # ctxTasks =>
            \E c \in Calls : awaiting[c] # "none" /\ awaiting'[c] = "none" /\ pc[c] = "done"

\* C22: when the TaskService call of loadTasks, createTask, updateTask,
\* deleteTask, toggleTaskStatus or cycleTaskStatus of the TaskProvider
\* fails (storage failure or not-found), the tasks state is unchanged from
\* before the attempt and the error state is the message of the failure.
C22_ProviderFailure == [][ProviderFailureSteps]_vars

\* updateTask of an unknown id failed with not-found: the error state holds
\* the message and the tasks state still holds the record loaded.
C22_Witness ==
    \E c \in Calls :
        /\ op[c] = "updateTask" /\ pc[c] = "failed" /\ awaiting[c] = "none"
        /\ error[c] = NotFound
        /\ ctxError = Val(NotFound)
        /\ loaded
        /\ Len(ctxTasks) = 1
        /\ ctxTasks = Persisted

\* No operation of the TaskProvider is in flight.
Quiescent == \A c \in Calls : awaiting[c] = "none"

\* C27: when each operation of the TaskProvider completes before the next
\* is issued, then from the first loadTasks that completed on, whenever no
\* operation is in flight the tasks state holds the records of the
\* persisted collection, in the same order.
C27_SequentialConsistency ==
    (loaded /\ Quiescent) => SameProperties(ctxTasks, Persisted)

\* C28: whatever the interleaving of the operations of the TaskProvider,
\* once a loadTasks has completed and no operation is in flight, the tasks
\* state holds the records of the persisted collection in the same order;
\* in particular the record of a createTask that resolved and is persisted
\* is in the tasks state.
C28_QuiescentConsistency ==
    (loaded /\ Quiescent) =>
        /\ \A c \in Calls :
            (op[c] = "createTask" /\ pc[c] = "done" /\ Prop(result[c], "id") \in IdsOf(Persisted)) =>
                Prop(result[c], "id") \in IdsOf(ctxTasks)
        /\ Len(ctxTasks) = Len(Persisted)
        /\ SameProperties(ctxTasks, Persisted)

\* A loadTasks or refreshTasks is in flight on the slot.
Loading(c) == awaiting[c] \in {"loadTasks", "refreshTasks"}

\* C29: the loading state is true whenever a loadTasks or refreshTasks is
\* in flight, also when two of them overlap, and false when all of them
\* have completed.
C29_LoadingFlag ==
    /\ (\E c \in Calls : Loading(c)) => loading = TRUE
    /\ (issued > 0 /\ \A c \in Calls : ~Loading(c)) => loading = FALSE

\* The statistics the TaskProvider renders.
stats == calculateStats(ctxTasks)

\* The number of records of the tasks state whose status is s.
CountOf(s) == Cardinality({i \in 1..Len(ctxTasks) : Prop(ctxTasks[i], "status") = Val(s)})

\* C30: the statistics partition the tasks state: total is the number of
\* records, each count is the number of records with that status, and
\* total = todo + inProgress + completed.
C30_StatsPartition ==
    /\ stats.total = Len(ctxTasks)
    /\ stats.todo = CountOf(TODO)
    /\ stats.inProgress = CountOf(IN_PROGRESS)
    /\ stats.completed = CountOf(COMPLETED)
    /\ stats.total = stats.todo + stats.inProgress + stats.completed

====
